---- MODULE Spec2Model ----
(***************************************************************************)
(* Model of prepare_rent_sell_count_data.py: get_rent_sell_count (one      *)
(* headless-browser fetch of a listing count) and main (four fetches, then *)
(* one dated row written to the spreadsheet, cell by cell).                *)
(*                                                                         *)
(* Strings that the program computes (cell values, counts, dates) are      *)
(* sequences of one-character strings.  The outcome of every call into     *)
(* Playwright, the file system or the spreadsheet service is an input,     *)
(* drawn with \E from the outcomes that call can have.  browser.close()    *)
(* and logging/printing are taken to succeed.                              *)
(***************************************************************************)
EXTENDS Integers, Sequences, FiniteSets, TLC

VARIABLES
    \* ---- get_rent_sell_count: the call in progress
    fpc,          \* position in get_rent_sell_count
    type_str,     \* its argument
    browser,      \* the local `browser`: "unbound" | "open" | "closed"
    attempt,      \* loop variable of `for attempt in range(3)`
    ret,          \* value returned by the call
    gotoCalls,    \* page.goto calls made by this call
    timeouts,     \* of which ended in PlaywrightTimeoutError
    extractCalls, \* wait_for_selector/query_selector/inner_text calls made
    openBrowsers, \* browser processes launched and not yet closed
    \* ---- main: the run in progress
    mpc,          \* position in main ("off": get_rent_sell_count driven alone)
    data,         \* rent_data, sell_data, wan_chai_rent_data, wan_chai_sell_data so far
    tokenExists,  \* what os.path.exists(token_file_name) returned
    row_count,    \* local row_count (0 until computed)
    current_row,  \* local current_row (0 until computed)
    written,      \* update_cell calls completed in this run
    result,       \* value returned by main (<<>> while running)
    apiFailed,    \* an external call of the recording stage raised in this run
    reads,        \* get_all_values calls made in this run
    \* ---- the world
    sheet,        \* the spreadsheet's first sheet: rows of five cells
    today,        \* datetime.date.today(), as the day of January 2024
    \* ---- bookkeeping for the properties
    sheet0,       \* the sheet when the run started
    prev,         \* what the previous run did
    runs          \* runs started

fvars == <<fpc, type_str, browser, attempt, ret, gotoCalls, timeouts, extractCalls, openBrowsers>>
mvars == <<mpc, data, tokenExists, row_count, current_row, written, result, apiFailed, reads,
           sheet, today, sheet0, prev, runs>>
vars == <<fvars, mvars>>

----------------------------------------------------------------------------
\* Bounds of the model
MaxTextLen == 2     \* longest element text the site serves (fetch driven alone)
FirstDay == 9       \* day of January 2024 of the first run
MaxDay == 10        \* last day of January 2024 on which the script runs
MaxRuns == 2        \* runs of main in one behaviour

\* Program constants
MaxAttempts == 3    \* range(3)
LastAttempt == 2    \* if attempt == 2

----------------------------------------------------------------------------
\* Characters and strings

AsciiDigits == {"0", "1", "2", "3", "4", "5", "6", "7", "8", "9"}
\* "FW3" stands for U+FF13, a non-ASCII decimal digit: Python's \d on a str
\* pattern matches every Unicode decimal digit.
UnicodeDigits == AsciiDigits \cup {"FW3"}
Alphabet == {"7", "FW3", ","}

RECURSIVE StringsUpTo(_, _)
StringsUpTo(A, n) ==
    IF n = 0 THEN {<<>>}
    ELSE LET S == StringsUpTo(A, n - 1)
         IN  S \cup {Append(s, c) : s \in {t \in S : Len(t) = n - 1}, c \in A}

\* element.inner_text(): every text up to MaxTextLen when get_rent_sell_count
\* is driven alone; the text "1,2" when it is called from main, whose counts
\* are then "12" or the "0" of a failed fetch
AllTexts == StringsUpTo(Alphabet, MaxTextLen)
PageTexts == {<<"1", ",", "2">>}

IsDigit(c) == c \in UnicodeDigits

\* re.sub(r'[^\d]', '', data)
re_sub_non_digits(text) == SelectSeq(text, IsDigit)

Zero == <<"0">>

url_map == {"RENT", "SELL", "WAN_CHAI_RENT", "WAN_CHAI_SELL"}
TypeStrs == url_map \cup {"OTHER"}
Queries == <<"RENT", "SELL", "WAN_CHAI_RENT", "WAN_CHAI_SELL">>

----------------------------------------------------------------------------
\* get_rent_sell_count

\* Variant: the clause catches ValueError only
ExceptCatchesValueErrorOnly(kind) == kind = "ValueError"

\* `except Exception as e` (line 76): which raised exceptions the clause catches
ExceptCatches(kind) == kind \in {"ValueError", "TimeoutError", "Error"}

\* browser.close(): closing a browser that is already closed does nothing
CloseBrowser ==
    /\ browser' = "closed"
    /\ openBrowsers' = IF browser = "open" THEN openBrowsers - 1 ELSE openBrowsers

\* Variant: the handler never closes the browser
BrowserNeverInLocals(b) == FALSE

\* line 79: if 'browser' in locals()
BrowserInLocals(b) == b # "unbound"

\* An exception of the given kind raised inside the try block (lines 76-81)
Raise(kind) ==
    IF ExceptCatches(kind)
    THEN /\ IF BrowserInLocals(browser)
            THEN CloseBrowser
            ELSE UNCHANGED <<browser, openBrowsers>>
         /\ ret' = Zero
         /\ fpc' = "returned"
    ELSE /\ fpc' = "raised"
         /\ UNCHANGED <<browser, openBrowsers, ret>>

\* lines 31-33: url = url_map.get(type_str, ""); if not url: raise ValueError
Lookup ==
    /\ fpc = "entry"
    /\ IF type_str \in url_map
       THEN /\ fpc' = "launch"
            /\ UNCHANGED <<browser, openBrowsers, ret>>
       ELSE Raise("ValueError")
    /\ UNCHANGED <<type_str, attempt, gotoCalls, timeouts, extractCalls, mvars>>

\* lines 35-44: browser = playwright.chromium.launch(...)
Launch ==
    /\ fpc = "launch"
    /\ \E ok \in BOOLEAN :
        IF ok
        THEN /\ browser' = "open"
             /\ openBrowsers' = openBrowsers + 1
             /\ fpc' = "new_page"
             /\ UNCHANGED ret
        ELSE Raise("Error")
    /\ UNCHANGED <<type_str, attempt, gotoCalls, timeouts, extractCalls, mvars>>

\* line 45: page = browser.new_page()
NewPage ==
    /\ fpc = "new_page"
    /\ \E ok \in BOOLEAN :
        IF ok
        THEN /\ fpc' = "goto"
             /\ UNCHANGED <<browser, openBrowsers, ret>>
        ELSE Raise("Error")
    /\ attempt' = 0
    /\ UNCHANGED <<type_str, gotoCalls, timeouts, extractCalls, mvars>>

\* Variant: the give-up test is off by one (attempt == 3)
IsLastAttemptOffByOne(a) == a = LastAttempt + 1

\* line 57: if attempt == 2
IsLastAttempt(a) == a = LastAttempt

\* lines 48-61: one iteration of the retry loop
Goto ==
    /\ fpc = "goto"
    /\ gotoCalls' = gotoCalls + 1
    /\ \E outcome \in {"ok", "timeout", "error"} :
        CASE outcome = "ok" ->
                /\ fpc' = "wait"
                /\ UNCHANGED <<browser, openBrowsers, ret, attempt, timeouts>>
          [] outcome = "timeout" ->
                /\ timeouts' = timeouts + 1
                /\ IF IsLastAttempt(attempt)
                   THEN /\ CloseBrowser
                        /\ ret' = Zero
                        /\ fpc' = "returned"
                        /\ UNCHANGED attempt
                   ELSE /\ IF attempt + 1 < MaxAttempts
                           THEN /\ attempt' = attempt + 1
                                /\ fpc' = "goto"
                           ELSE /\ fpc' = "wait"
                                /\ UNCHANGED attempt
                        /\ UNCHANGED <<browser, openBrowsers, ret>>
          [] outcome = "error" ->
                /\ Raise("Error")
                /\ UNCHANGED <<attempt, timeouts>>
    /\ UNCHANGED <<type_str, extractCalls, mvars>>

\* line 63: page.wait_for_selector('h2 span span', timeout=30000)
WaitForSelector ==
    /\ fpc = "wait"
    /\ extractCalls' = extractCalls + 1
    /\ \E outcome \in {"ok", "timeout"} :
        IF outcome = "ok"
        THEN /\ fpc' = "query"
             /\ UNCHANGED <<browser, openBrowsers, ret>>
        ELSE Raise("TimeoutError")
    /\ UNCHANGED <<type_str, attempt, gotoCalls, timeouts, mvars>>

\* lines 64-66: element = page.query_selector(...); if not element: raise ValueError
QuerySelector ==
    /\ fpc = "query"
    /\ extractCalls' = extractCalls + 1
    /\ \E outcome \in {"element", "none", "error"} :
        CASE outcome = "element" ->
                /\ fpc' = "inner_text"
                /\ UNCHANGED <<browser, openBrowsers, ret>>
          [] outcome = "none" -> Raise("ValueError")
          [] outcome = "error" -> Raise("Error")
    /\ UNCHANGED <<type_str, attempt, gotoCalls, timeouts, mvars>>

\* lines 68-74: data = element.inner_text(); revised_data = re.sub(...);
\* browser.close(); return revised_data
InnerText(texts) ==
    /\ fpc = "inner_text"
    /\ extractCalls' = extractCalls + 1
    /\ \/ \E text \in texts :
            /\ CloseBrowser
            /\ ret' = re_sub_non_digits(text)
            /\ fpc' = "returned"
       \/ Raise("Error")
    /\ UNCHANGED <<type_str, attempt, gotoCalls, timeouts, mvars>>

\* A call of get_rent_sell_count(playwright, t): fresh locals
Enter(t) ==
    /\ type_str' = t
    /\ fpc' = "entry"
    /\ browser' = "unbound"
    /\ attempt' = 0
    /\ ret' = <<>>
    /\ gotoCalls' = 0
    /\ timeouts' = 0
    /\ extractCalls' = 0
    /\ UNCHANGED openBrowsers

\* get_rent_sell_count called on its own, with any identifier
Invoke ==
    /\ mpc = "off"
    /\ fpc \in {"idle", "returned"}
    /\ \E t \in TypeStrs : Enter(t)
    /\ UNCHANGED mvars

FetchIdle ==
    /\ fpc = "idle"
    /\ type_str = "RENT"
    /\ browser = "unbound"
    /\ attempt = 0
    /\ ret = <<>>
    /\ gotoCalls = 0
    /\ timeouts = 0
    /\ extractCalls = 0
    /\ openBrowsers = 0

----------------------------------------------------------------------------
\* The spreadsheet (gspread) and the date

NumCols == 5
Blank == <<>>
BlankRow == [c \in 1..NumCols |-> Blank]

Max(a, b) == IF a > b THEN a ELSE b

\* sheet.get_all_values(): the rows up to the last one that holds a value
LastUsedRow(s) ==
    LET used == {i \in 1..Len(s) : s[i] # BlankRow}
    IN  IF used = {} THEN 0 ELSE CHOOSE i \in used : \A j \in used : j <= i
get_all_values(s) == SubSeq(s, 1, LastUsedRow(s))

\* sheet.update_cell(row, col, value)
update_cell(s, r, c, v) ==
    LET grown == [i \in 1..Max(Len(s), r) |-> IF i <= Len(s) THEN s[i] ELSE BlankRow]
    IN  [grown EXCEPT ![r][c] = v]

DigitChars == <<"0", "1", "2", "3", "4", "5", "6", "7", "8", "9">>

\* today.strftime('%Y-%m-%d') for the d-th of January 2024
strftime(d) ==
    <<"2", "0", "2", "4", "-", "0", "1", "-", DigitChars[(d \div 10) + 1], DigitChars[(d % 10) + 1]>>

Days == FirstDay..MaxDay

----------------------------------------------------------------------------
\* main

Success == <<"Success!">>
\* f"Error: {str(e)}"
ErrorResult(msg) == <<"Error: ", msg>>
BeginsWithError(r) == Len(r) > 0 /\ r[1] = "Error: "

\* lines 126-129: except Exception as e: ... return f"Error: {str(e)}"
Fail(msg) ==
    /\ result' = ErrorResult(msg)
    /\ mpc' = "done"

\* lines 89-92, the call: get_rent_sell_count(playwright, <next identifier>)
CallFetch ==
    /\ mpc = "call"
    /\ Enter(Queries[Len(data) + 1])
    /\ mpc' = "await"
    /\ UNCHANGED <<data, tokenExists, row_count, current_row, written, result, apiFailed,
                   reads, sheet, today, sheet0, prev, runs>>

\* lines 89-92, the assignment of the returned value
ReturnFetch ==
    /\ mpc = "await"
    /\ fpc \in {"returned", "raised"}
    /\ IF fpc = "returned"
       THEN /\ data' = Append(data, ret)
            /\ mpc' = IF Len(data) + 1 = Len(Queries) THEN "token" ELSE "call"
            /\ UNCHANGED result
       ELSE /\ Fail("get_rent_sell_count")
            /\ UNCHANGED data
    /\ fpc' = "idle"
    /\ type_str' = "RENT"
    /\ browser' = "unbound"
    /\ attempt' = 0
    /\ ret' = <<>>
    /\ gotoCalls' = 0
    /\ timeouts' = 0
    /\ extractCalls' = 0
    /\ UNCHANGED <<openBrowsers, tokenExists, row_count, current_row, written, apiFailed,
                   reads, sheet, today, sheet0, prev, runs>>

\* Variant: the existence test is dropped
TokenNeverMissing(exists) == FALSE

\* line 97: if not os.path.exists(token_file_name)
TokenMissing(exists) == ~exists

\* lines 94-98
TokenCheck ==
    /\ mpc = "token"
    /\ \E exists \in BOOLEAN :
        /\ tokenExists' = IF exists THEN "present" ELSE "absent"
        /\ IF TokenMissing(exists)
           THEN Fail("Token file not found")
           ELSE /\ mpc' = "open"
                /\ UNCHANGED result
    /\ UNCHANGED <<fvars, data, row_count, current_row, written, apiFailed, reads, sheet,
                   today, sheet0, prev, runs>>

\* lines 100-103: credentials, gspread.authorize, open_by_key(...).sheet1
OpenSheet ==
    /\ mpc = "open"
    /\ \E ok \in BOOLEAN :
        IF ok
        THEN /\ mpc' = "read"
             /\ UNCHANGED <<result, apiFailed>>
        ELSE /\ Fail("APIError")
             /\ apiFailed' = TRUE
    /\ UNCHANGED <<fvars, data, tokenExists, row_count, current_row, written, reads, sheet,
                   today, sheet0, prev, runs>>

\* Variant: a missing row reads as an empty cell
df_0_guarded(rows, label) ==
    IF label + 1 \in 1..Len(rows)
    THEN <<"ok", rows[label + 1][1]>>
    ELSE <<"ok", <<>>>>

\* pandas df[0][label] on pd.DataFrame(rows): the first cell of the row with
\* that label, or a KeyError when there is no such row (no column 0 at all
\* when rows is empty)
df_0(rows, label) ==
    IF label + 1 \in 1..Len(rows)
    THEN <<"ok", rows[label + 1][1]>>
    ELSE <<"KeyError">>

\* Variant: always the last row
TargetRowAlwaysLast(last_date, data_date, n) == n
\* Variant: always a new row
TargetRowAlwaysNext(last_date, data_date, n) == n + 1
\* Variant: the comparison is inverted
TargetRowInverted(last_date, data_date, n) ==
    IF last_date # data_date THEN n ELSE n + 1

\* line 116: row_count if <last date> == data_date else row_count + 1
TargetRow(last_date, data_date, n) ==
    IF last_date = data_date THEN n ELSE n + 1

\* lines 105-116: rows = sheet.get_all_values(); row_count; data_date; current_row
ReadRows ==
    /\ mpc = "read"
    /\ reads' = reads + 1
    /\ \E ok \in BOOLEAN :
        IF ok
        THEN LET rows == get_all_values(sheet)
                 n == Len(rows)
                 cell == df_0(rows, n - 1)
             IN  /\ row_count' = n
                 /\ IF cell[1] = "ok"
                    THEN /\ current_row' = TargetRow(cell[2], strftime(today), n)
                         /\ mpc' = "write"
                         /\ UNCHANGED result
                    ELSE /\ Fail("0")
                         /\ UNCHANGED current_row
                 /\ UNCHANGED apiFailed
        ELSE /\ Fail("APIError")
             /\ apiFailed' = TRUE
             /\ UNCHANGED <<row_count, current_row>>
    /\ UNCHANGED <<fvars, data, tokenExists, written, sheet, today, sheet0, prev, runs>>

\* Variant: the cells are written right to left
ColumnReversed(k) == 6 - k

\* lines 117-121: the k-th update_cell call writes column k ...
Column(k) == k
\* ... with the date first, then the four counts in the order fetched
CellValue(k, data_date, counts) == IF k = 1 THEN data_date ELSE counts[k - 1]

\* lines 117-125: one update_cell call; after the fifth, return "Success!"
WriteCell ==
    /\ mpc = "write"
    /\ \E ok \in BOOLEAN :
        IF ok
        THEN LET k == written + 1
             IN  /\ sheet' = update_cell(sheet, current_row, Column(k),
                                         CellValue(k, strftime(today), data))
                 /\ written' = k
                 /\ IF k = NumCols
                    THEN /\ result' = Success
                         /\ mpc' = "done"
                    ELSE UNCHANGED <<result, mpc>>
                 /\ UNCHANGED apiFailed
        ELSE /\ Fail("APIError")
             /\ apiFailed' = TRUE
             /\ UNCHANGED <<sheet, written>>
    /\ UNCHANGED <<fvars, data, tokenExists, row_count, current_row, reads, today, sheet0,
                   prev, runs>>

\* The script is started again (lines 131-133), on the same day or a later one
NewRun ==
    /\ mpc = "done"
    /\ runs < MaxRuns
    /\ runs' = runs + 1
    /\ \E d \in Days : d >= today /\ today' = d
    /\ prev' = [date |-> today, row |-> IF written > 0 THEN current_row ELSE 0,
                rows |-> Len(get_all_values(sheet))]
    /\ sheet0' = sheet
    /\ mpc' = "call"
    /\ data' = <<>>
    /\ tokenExists' = "unchecked"
    /\ row_count' = 0
    /\ current_row' = 0
    /\ written' = 0
    /\ result' = <<>>
    /\ apiFailed' = FALSE
    /\ reads' = 0
    /\ UNCHANGED <<fvars, sheet>>

\* Sheets the first run can find: an empty one, or one whose last row holds a
\* date (the day before the first run, that day, or the day after) and four counts
Stale == <<"9">>
SeedRow(d) == <<strftime(d), Stale, Stale, Stale, Stale>>
InitialSheets ==
    {<<>>} \cup {<<SeedRow(d)>> : d \in (FirstDay - 1)..(FirstDay + 1)}

NoPrev == [date |-> 0, row |-> 0, rows |-> 0]

MainOff ==
    /\ mpc = "off"
    /\ data = <<>>
    /\ tokenExists = "unchecked"
    /\ row_count = 0
    /\ current_row = 0
    /\ written = 0
    /\ result = <<>>
    /\ apiFailed = FALSE
    /\ reads = 0
    /\ sheet = <<>>
    /\ today = 1
    /\ sheet0 = <<>>
    /\ prev = NoPrev
    /\ runs = 0

InitFetch == FetchIdle /\ MainOff

FetchStep ==
    \/ Lookup
    \/ Launch
    \/ NewPage
    \/ Goto
    \/ WaitForSelector
    \/ QuerySelector
    \/ InnerText(AllTexts)

NextFetch ==
    \/ Invoke
    \/ FetchStep

\* Every step of a call ends within its timeout, so a call in progress goes on
SpecFetch == InitFetch /\ [][NextFetch]_vars /\ WF_vars(FetchStep)

Init ==
    /\ FetchIdle
    /\ mpc = "call"
    /\ data = <<>>
    /\ tokenExists = "unchecked"
    /\ row_count = 0
    /\ current_row = 0
    /\ written = 0
    /\ result = <<>>
    /\ apiFailed = FALSE
    /\ reads = 0
    /\ sheet \in InitialSheets
    /\ today = FirstDay
    /\ sheet0 = sheet
    /\ prev = NoPrev
    /\ runs = 1

Next ==
    \/ CallFetch
    \/ Lookup
    \/ Launch
    \/ NewPage
    \/ Goto
    \/ WaitForSelector
    \/ QuerySelector
    \/ InnerText(PageTexts)
    \/ ReturnFetch
    \/ TokenCheck
    \/ OpenSheet
    \/ ReadRows
    \/ WriteCell
    \/ NewRun

Spec == Init /\ [][Next]_vars

----------------------------------------------------------------------------
\* Properties

DecimalDigit(c) == c \in {"0", "1", "2", "3", "4", "5", "6", "7", "8", "9", "FW3"}
AllDigits(str) == \A i \in 1..Len(str) : DecimalDigit(str[i])

rows0 == get_all_values(sheet0)
data_date == strftime(today)
CellAt(s, r, c) == IF r \in 1..Len(s) THEN s[r][c] ELSE <<>>

DigitValue(c) == CHOOSE n \in 0..9 : DigitChars[n + 1] = c
IsDateCell(str) ==
    /\ Len(str) = 10
    /\ SubSeq(str, 1, 8) = <<"2", "0", "2", "4", "-", "0", "1", "-">>
    /\ str[9] \in AsciiDigits
    /\ str[10] \in AsciiDigits
DayOf(str) == 10 * DigitValue(str[9]) + DigitValue(str[10])
\* every row is dated, the dates increase strictly from row to row
DatesInOrder(s) ==
    /\ \A i \in 1..Len(s) : IsDateCell(s[i][1])
    /\ \A i \in 1..Len(s) : \A j \in 1..Len(s) :
            i < j => DayOf(s[i][1]) < DayOf(s[j][1])
\* no row is dated later than day d
NotAfter(s, d) == \A i \in 1..Len(s) : IsDateCell(s[i][1]) /\ DayOf(s[i][1]) <= d

\* C1: for every identifier, known or not, and every outcome of launch,
\* navigation, selector wait and text extraction, a call of
\* get_rent_sell_count never raises, returns "0" or a string of digit
\* characters only ("0" for an unknown identifier), and a call that has
\* started does return.
C1_NeverRaisesReturnsDigits ==
    /\ [](/\ fpc # "raised"
          /\ fpc = "returned" => (ret = <<"0">> \/ AllDigits(ret))
          /\ (fpc = "returned" /\ type_str \notin url_map) => ret = <<"0">>)
    /\ (fpc = "entry") ~> (fpc = "returned")
C1_Witness ==
    /\ fpc = "returned"
    /\ type_str \in url_map
    /\ extractCalls = 3
    /\ Len(ret) = 1
    /\ ret # <<"0">>

\* C2: page.goto is attempted at most 3 times in a call; when all 3 attempts
\* time out the call returns "0" and none of wait_for_selector,
\* query_selector, inner_text has been executed.
C2_ThreeTimeoutsNoExtraction ==
    /\ gotoCalls <= 3
    /\ timeouts = 3 => (fpc = "returned" /\ ret = <<"0">> /\ extractCalls = 0)
C2_Witness == timeouts = 3 /\ gotoCalls = 3 /\ fpc = "returned"

\* C3: when the previous run wrote a row for date D and this run is on the
\* same date D, this run targets the row the previous run wrote, the sheet
\* keeps the row count it had after the previous run, and once this run has
\* written its five cells that row holds D and this run's four counts.
C3_SameDayRerunOverwrites ==
    (runs >= 2 /\ prev.date = today /\ prev.row > 0) =>
        /\ Len(get_all_values(sheet)) = prev.rows
        /\ current_row # 0 => current_row = prev.row
        /\ result = <<"Success!">> => sheet[prev.row] = <<data_date>> \o data
C3_Witness ==
    /\ runs >= 2
    /\ prev.date = today
    /\ prev.row > 0
    /\ result = <<"Success!">>
    /\ sheet[prev.row] # sheet0[prev.row]

\* C4: a run on a date other than the one in the first cell of the last
\* existing row, all of whose writes succeed, appends one row at row_count + 1
\* holding the date and the four counts; the row count grows by exactly 1 and
\* every row that existed is unchanged.
C4_NewDateAppendsOneRow ==
    (/\ mpc = "done"
     /\ result = <<"Success!">>
     /\ rows0 # <<>>
     /\ rows0[Len(rows0)][1] # data_date) =>
        /\ current_row = Len(rows0) + 1
        /\ Len(get_all_values(sheet)) = Len(rows0) + 1
        /\ sheet[Len(rows0) + 1] = <<data_date>> \o data
        /\ \A i \in 1..Len(rows0) : sheet[i] = sheet0[i]
C4_Witness ==
    /\ mpc = "done"
    /\ result = <<"Success!">>
    /\ Len(rows0) = 2
    /\ rows0[Len(rows0)][1] # data_date
    /\ Len(sheet) = 3

\* C5: when token.json is absent at the recording stage, main returns a string
\* beginning with "Error:" having made no spreadsheet read and no cell write
\* (the sheet is unchanged), after all four fetches were executed.
C5_TokenAbsentNoSheetAccess ==
    tokenExists = "absent" =>
        /\ mpc = "done"
        /\ BeginsWithError(result)
        /\ reads = 0
        /\ written = 0
        /\ current_row = 0
        /\ sheet = sheet0
        /\ Len(data) = 4
C5_Witness == tokenExists = "absent" /\ mpc = "done" /\ sheet # <<>>

\* C6: every browser a call of get_rent_sell_count launched is closed when
\* the call returns, whatever the exit path; no browser is open when a fetch
\* starts or during the recording stage.
C6_NoBrowserLeftOpen ==
    /\ fpc \in {"idle", "entry", "returned", "raised"} => openBrowsers = 0
    /\ mpc \in {"call", "token", "open", "read", "write", "done"} => openBrowsers = 0
    /\ openBrowsers <= 1
C6_Witness ==
    /\ fpc = "returned"
    /\ browser = "closed"
    /\ extractCalls = 2
    /\ ret = <<"0">>
    /\ Len(data) = 3

\* C7 as stated: over any sequence of runs on nondecreasing dates, from a
\* sheet whose dates are in order and distinct, the dates stay in order and
\* distinct.
C7_DatesStayInOrder == DatesInOrder(sheet)

\* C7 as amended: when at the start of a run the dates are in order and
\* distinct and none is later than the date of the run, they stay so during
\* and after the run (and so over any sequence of runs on nondecreasing
\* dates, from a sheet in date order with no date later than the first run).
C7_DatesStayInOrderFromPast ==
    (DatesInOrder(sheet0) /\ NotAfter(sheet0, today)) =>
        (DatesInOrder(sheet) /\ NotAfter(sheet, today))
C7_Witness ==
    /\ runs = 2
    /\ mpc = "done"
    /\ DatesInOrder(sheet)
    /\ NotAfter(sheet, today)
    /\ Len(sheet) = 3
    /\ written \in 1..4

RowBefore(i) == IF i \in 1..Len(sheet0) THEN sheet0[i] ELSE BlankRow

\* C8: for every initial sheet, the empty one included, a run whose
\* credential file is present and whose spreadsheet calls all succeed writes
\* the cells of exactly one row and leaves every other row unchanged.
C8_ExactlyOneRowWritten ==
    (mpc = "done" /\ tokenExists = "present" /\ ~apiFailed) =>
        /\ written = 5
        /\ current_row \in 1..Len(sheet)
        /\ \A i \in 1..Len(sheet) : i # current_row => sheet[i] = RowBefore(i)
\* C9: the cells are written one at a time in the order column 1 to 5: after
\* k writes columns 1..k of the target row hold this run's values and the
\* other columns hold what they held before the run; a run that ends with
\* fewer than five writes returns a string beginning with "Error:", and
\* "Success!" is returned only after all five writes.
C9_WritesInColumnOrder ==
    /\ current_row # 0 =>
         \A c \in 1..5 :
            CellAt(sheet, current_row, c) =
                IF c <= written
                THEN (IF c = 1 THEN data_date ELSE data[c - 1])
                ELSE CellAt(sheet0, current_row, c)
    /\ result = <<"Success!">> => written = 5
    /\ (mpc = "done" /\ written < 5) => BeginsWithError(result)
C9_Witness ==
    /\ mpc = "done"
    /\ BeginsWithError(result)
    /\ written = 3
    /\ current_row \in 1..Len(sheet0)
    /\ sheet[current_row][3] = data[2]
    /\ sheet[current_row][4] = sheet0[current_row][4]
    /\ sheet[current_row][4] # <<>>
    /\ sheet[current_row][4] # data[3]

\* C10: with a sheet of zero rows the target row is never computed and no
\* cell is written: the run ends returning a string beginning with "Error:",
\* and a sheet that is empty when a run starts is empty ever after.
C10_EmptySheetStaysEmpty ==
    sheet0 = <<>> =>
        /\ sheet = <<>>
        /\ written = 0
        /\ current_row = 0
        /\ mpc # "write"
        /\ mpc = "done" => BeginsWithError(result)
C10_Witness ==
    /\ sheet0 = <<>>
    /\ runs = 2
    /\ mpc = "done"
    /\ reads = 1
    /\ ~apiFailed
    /\ result = <<"Error: ", "0">>

====
